---------------------------- MODULE Spec2Model ----------------------------
(***************************************************************************)
(* A model of libscrape.py: the crawl driver (main), the page fetcher      *)
(* (fetch_page_links), the classifier (is_english_file), the download      *)
(* scheduler (process_links on a ThreadPoolExecutor) with the per-link     *)
(* download (download_with_wget), and the checkpoint file COMPLETED.TXT.   *)
(*                                                                         *)
(* Text is modelled as sequences of characters; a character is a one-      *)
(* character string, and a non-ASCII character is a named token such as    *)
(* "a_acute".                                                              *)
(***************************************************************************)
EXTENDS Integers, Sequences, FiniteSets, TLC

(***************************************************************************)
(* Program constants (libscrape.py lines 16-21).                           *)
(***************************************************************************)
MAX_CONCURRENT_DOWNLOADS == 4
SERVICE_UNAVAILABLE_RETRIES == 2

(***************************************************************************)
(* Bounds of the model.                                                    *)
(***************************************************************************)
MaxPage == 2
\* the largest page number written to the checkpoint on its own
MaxNumber == 12
\* the longest file name given to the classifier on its own
MaxNameLen == 3

(***************************************************************************)
(* Static data: word lists (lines 27-38) and character tables.            *)
(***************************************************************************)
COMMON_ENGLISH_WORDS ==
    {
       <<"t", "h", "e">>, <<"a", "n", "d">>, <<"o", "f">>, <<"t", "o">>, <<"a">>, <<"i", "n">>,
       <<"i", "s">>, <<"i", "t">>, <<"y", "o", "u">>, <<"t", "h", "a", "t">>, <<"h", "e">>,
       <<"w", "a", "s">>, <<"f", "o", "r">>, <<"o", "n">>, <<"a", "r", "e">>,
       <<"w", "i", "t", "h">>, <<"a", "s">>, <<"I">>, <<"h", "i", "s">>,
       <<"t", "h", "e", "y">>, <<"b", "e">>, <<"a", "t">>, <<"o", "n", "e">>,
       <<"h", "a", "v", "e">>, <<"t", "h", "i", "s">>, <<"f", "r", "o", "m">>, <<"o", "r">>,
       <<"h", "a", "d">>, <<"b", "y">>, <<"n", "o", "t">>, <<"b", "u", "t">>,
       <<"w", "h", "a", "t">>, <<"a", "l", "l">>, <<"s", "e", "c", "u", "r", "i", "t", "y">>,
       <<"a", "r", "c", "h", "i", "t", "e", "c", "t", "u", "r", "e">>, <<"h", "o", "w">>,
       <<"w", "h", "y">>, <<"f", "o", "r", "e", "n", "s", "i", "c", "s">>,
       <<"s", "e", "r", "i", "e", "s">>, <<"d", "i", "g", "i", "t", "a", "l">>,
       <<"r", "i", "v", "e", "r">>, <<"p", "u", "b", "l", "i", "s", "h", "e", "r", "s">>,
       <<"s", "t", "u", "d", "e", "n", "t", "s">>, <<"r", "e", "s", "e", "a", "r", "c", "h">>,
       <<"h", "u", "n", "t", "i", "n", "g">>, <<"b", "o", "o", "k">>, <<"g", "o", "d">>,
       <<"s", "y", "s", "t", "e", "m">>, <<"m", "e", "t", "h", "o", "d", "s">>,
       <<"e", "m", "b", "e", "d", "d", "e", "d">>,
       <<"c", "o", "n", "t", "r", "o", "l", "l", "e", "r">>,
       <<"l", "e", "a", "r", "n", "i", "n", "g">>, <<"c", "r", "i", "s", "i", "s">>,
       <<"i", "n", "t", "e", "r", "v", "e", "n", "t", "i", "o", "n">>,
       <<"s", "t", "o", "r", "i", "e", "s">>, <<"b", "o", "r", "n">>,
       <<"c", "r", "i", "m", "e">>
    }

FOREIGN_STOPWORDS ==
    {
       <<"m", "a", "t", "e", "m", "a_acute", "t", "i", "c", "a">>,
       <<"p", "s", "y", "c", "h", "o", "l", "o", "g", "i", "e">>,
       <<"e", "t", "u", "d", "e", "s">>, <<"l", "e">>, <<"l", "a">>, <<"d", "e">>,
       <<"d", "e", "l">>, <<"d", "a", "s">>, <<"d", "o", "s">>, <<"e", "s">>, <<"e", "t">>,
       <<"f", "u_uml", "r">>, <<"y">>, <<"e", "n">>
    }

LowerLetters ==
    {
       "a", "b", "c", "d", "e", "f", "g", "h", "i", "j", "k", "l", "m", "n", "o", "p", "q",
       "r", "s", "t", "u", "v", "w", "x", "y", "z"
    }

UpperLetters ==
    {
       "A", "B", "C", "D", "E", "F", "G", "H", "I", "J", "K", "L", "M", "N", "O", "P", "Q",
       "R", "S", "T", "U", "V", "W", "X", "Y", "Z"
    }

Digits ==
    {
       "0", "1", "2", "3", "4", "5", "6", "7", "8", "9"
    }

CasePairs ==
    {
       <<"A", "a">>, <<"B", "b">>, <<"C", "c">>, <<"D", "d">>, <<"E", "e">>, <<"F", "f">>,
       <<"G", "g">>, <<"H", "h">>, <<"I", "i">>, <<"J", "j">>, <<"K", "k">>, <<"L", "l">>,
       <<"M", "m">>, <<"N", "n">>, <<"O", "o">>, <<"P", "p">>, <<"Q", "q">>, <<"R", "r">>,
       <<"S", "s">>, <<"T", "t">>, <<"U", "u">>, <<"V", "v">>, <<"W", "w">>, <<"X", "x">>,
       <<"Y", "y">>, <<"Z", "z">>
    }

AsciiEscapes ==
    {
       <<"6", "1", "a">>, <<"6", "2", "b">>, <<"6", "3", "c">>, <<"6", "4", "d">>,
       <<"6", "5", "e">>, <<"6", "6", "f">>, <<"6", "7", "g">>, <<"6", "8", "h">>,
       <<"6", "9", "i">>, <<"6", "A", "j">>, <<"6", "B", "k">>, <<"6", "C", "l">>,
       <<"6", "D", "m">>, <<"6", "E", "n">>, <<"6", "F", "o">>, <<"7", "0", "p">>,
       <<"7", "1", "q">>, <<"7", "2", "r">>, <<"7", "3", "s">>, <<"7", "4", "t">>,
       <<"7", "5", "u">>, <<"7", "6", "v">>, <<"7", "7", "w">>, <<"7", "8", "x">>,
       <<"7", "9", "y">>, <<"7", "A", "z">>, <<"4", "1", "A">>, <<"4", "2", "B">>,
       <<"4", "3", "C">>, <<"4", "4", "D">>, <<"4", "5", "E">>, <<"4", "6", "F">>,
       <<"4", "7", "G">>, <<"4", "8", "H">>, <<"4", "9", "I">>, <<"4", "A", "J">>,
       <<"4", "B", "K">>, <<"4", "C", "L">>, <<"4", "D", "M">>, <<"4", "E", "N">>,
       <<"4", "F", "O">>, <<"5", "0", "P">>, <<"5", "1", "Q">>, <<"5", "2", "R">>,
       <<"5", "3", "S">>, <<"5", "4", "T">>, <<"5", "5", "U">>, <<"5", "6", "V">>,
       <<"5", "7", "W">>, <<"5", "8", "X">>, <<"5", "9", "Y">>, <<"5", "A", "Z">>,
       <<"3", "0", "0">>, <<"3", "1", "1">>, <<"3", "2", "2">>, <<"3", "3", "3">>,
       <<"3", "4", "4">>, <<"3", "5", "5">>, <<"3", "6", "6">>, <<"3", "7", "7">>,
       <<"3", "8", "8">>, <<"3", "9", "9">>, <<"5", "F", "_">>, <<"2", "E", ".">>,
       <<"2", "D", "-">>, <<"2", "0", " ">>, <<"2", "F", "/">>, <<"3", "A", ":">>,
       <<"3", "F", "?">>, <<"2", "3", "#">>, <<"3", "D", "=">>, <<"2", "5", "%">>
    }
(***************************************************************************)
(* Characters.  \w of Python's re on str is every Unicode letter, digit    *)
(* and the underscore.                                                     *)
(***************************************************************************)
CJKInRange == {"cjk_zhong"}                 \* U+4E2D, inside U+4E00..U+9FA5
KanaChars == {"kana_a"}                     \* U+3042, outside that range
GreekInRange == {"greek_alpha", "GREEK_ALPHA"}
GreekAccented == {"greek_alpha_tonos"}      \* U+03AC, outside U+03B1..U+03C9
CyrillicInRange == {"cyr_a", "CYR_A"}
CyrillicOther == {"cyr_yo"}                 \* U+0451, outside U+0430..U+044F
LatinAccented == {"a_acute", "u_uml", "A_ACUTE"}
NonAsciiCasePairs ==
    {<<"A_ACUTE", "a_acute">>, <<"GREEK_ALPHA", "greek_alpha">>, <<"CYR_A", "cyr_a">>}

WordChars ==
    LowerLetters \cup UpperLetters \cup Digits \cup {"_"} \cup LatinAccented
    \cup CJKInRange \cup KanaChars \cup GreekInRange \cup GreekAccented
    \cup CyrillicInRange \cup CyrillicOther

\* str.lower() on one character
LowerChar(c) ==
    IF \E p \in CasePairs \cup NonAsciiCasePairs : p[1] = c
    THEN (CHOOSE p \in CasePairs \cup NonAsciiCasePairs : p[1] = c)[2]
    ELSE c

\* str.lower()
Lower(s) == [i \in 1..Len(s) |-> LowerChar(s[i])]

HexDigits == Digits \cup {"a", "b", "c", "d", "e", "f", "A", "B", "C", "D", "E", "F"}

HexUpper(c) ==
    IF \E p \in CasePairs : p[2] = c
    THEN (CHOOSE p \in CasePairs : p[2] = c)[1]
    ELSE c

\* two-byte UTF-8 sequences of the characters of the model
Utf8Pairs ==
    {<<"C", "3", "A", "1", "a_acute">>, <<"C", "3", "B", "C", "u_uml">>,
     <<"D", "0", "B", "0", "cyr_a">>}

IsEscape(s, i) ==
    /\ i + 2 <= Len(s)
    /\ s[i] = "%"
    /\ s[i + 1] \in HexDigits
    /\ s[i + 2] \in HexDigits

IsUtf8Pair(s, i) ==
    /\ IsEscape(s, i)
    /\ IsEscape(s, i + 3)
    /\ \E p \in Utf8Pairs :
          /\ p[1] = HexUpper(s[i + 1]) /\ p[2] = HexUpper(s[i + 2])
          /\ p[3] = HexUpper(s[i + 4]) /\ p[4] = HexUpper(s[i + 5])

Utf8Char(s, i) ==
    (CHOOSE p \in Utf8Pairs :
          /\ p[1] = HexUpper(s[i + 1]) /\ p[2] = HexUpper(s[i + 2])
          /\ p[3] = HexUpper(s[i + 4]) /\ p[4] = HexUpper(s[i + 5]))[5]

\* the character of a one-byte escape; a byte that is no character on its
\* own decodes to U+FFFD (errors='replace')
EscapeChar(h1, h2) ==
    IF \E p \in AsciiEscapes : p[1] = HexUpper(h1) /\ p[2] = HexUpper(h2)
    THEN (CHOOSE p \in AsciiEscapes : p[1] = HexUpper(h1) /\ p[2] = HexUpper(h2))[3]
    ELSE "repl"

RECURSIVE UnquoteFrom(_, _)
UnquoteFrom(s, i) ==
    IF i > Len(s) THEN <<>>
    ELSE IF IsUtf8Pair(s, i) THEN <<Utf8Char(s, i)>> \o UnquoteFrom(s, i + 6)
    ELSE IF IsEscape(s, i) THEN <<EscapeChar(s[i + 1], s[i + 2])>> \o UnquoteFrom(s, i + 3)
    ELSE <<s[i]>> \o UnquoteFrom(s, i + 1)

\* urllib.parse.unquote (the text is evaluated once)
unquote(s) == CHOOSE r \in {UnquoteFrom(text, 1) : text \in {s}} : TRUE

\* the index of the last "/" of s, 0 when there is none
LastSlash(s) ==
    LET idx == {i \in 1..Len(s) : s[i] = "/"}
    IN  IF idx = {} THEN 0 ELSE CHOOSE i \in idx : \A j \in idx : j <= i

\* url.split("/")[-1]
LastSegment(url) == SubSeq(url, LastSlash(url) + 1, Len(url))

\* friendly_filename (lines 127-129)
friendly_filename(url) == unquote(LastSegment(url))

\* str.endswith
EndsWith(s, suffix) ==
    /\ Len(suffix) <= Len(s)
    /\ SubSeq(s, Len(s) - Len(suffix) + 1, Len(s)) = suffix

\* the `in` operator on strings
Contains(s, sub) ==
    \E i \in 1..(Len(s) - Len(sub) + 1) : SubSeq(s, i, i + Len(sub) - 1) = sub

\* the k-th smallest element of a set of indices
Nth(idx, k) == CHOOSE i \in idx : Cardinality({j \in idx : j < i}) = k - 1

\* the elements of s at the indices idx, in the order of s
Pick(s, idx) ==
    CHOOSE r \in {[k \in 1..Cardinality(at) |-> s[Nth(at, k)]] : at \in {idx}} : TRUE

\* re.findall(r'\b\w+\b', s): the maximal runs of word characters, from
\* left to right
IsWordStart(s, i) == s[i] \in WordChars /\ (i = 1 \/ s[i - 1] \notin WordChars)
WordEnd(s, i) ==
    CHOOSE j \in i..Len(s) :
        /\ \A k \in i..j : s[k] \in WordChars
        /\ (j = Len(s) \/ s[j + 1] \notin WordChars)
Words(s) ==
    CHOOSE r \in {[k \in 1..Cardinality(starts) |->
                      SubSeq(s, Nth(starts, k), WordEnd(s, Nth(starts, k)))] :
                  starts \in {{i \in 1..Len(s) : IsWordStart(s, i)}}} : TRUE

\* NON_ENGLISH_PATTERNS (lines 92-96), searched in the lower-cased name
NON_ENGLISH_PATTERNS == <<CJKInRange, GreekInRange, CyrillicInRange>>
MatchesPattern(s, n) == \E i \in 1..Len(s) : s[i] \in NON_ENGLISH_PATTERNS[n]

CountIn(ws, set) == Cardinality({i \in 1..Len(ws) : ws[i] \in set})

\* the test of line 120; the division is evaluated only when the count is
\* not zero, and then the list of words is not empty
Uncertain(english_word_count, total_words) ==
    \/ english_word_count = 0
    \/ english_word_count * 10 < 4 * total_words

\* as if the test of line 120 rejected the name
is_english_file_RatioRejects(filename) ==
    \E decoded_name \in {Lower(unquote(filename))} :
    \E words \in {Words(decoded_name)} :
        LET total_words == Len(words)
            english_word_count == CountIn(words, COMMON_ENGLISH_WORDS)
            found_foreign_words == CountIn(words, FOREIGN_STOPWORDS)
        IN  IF \E n \in 1..Len(NON_ENGLISH_PATTERNS) : MatchesPattern(decoded_name, n)
            THEN FALSE
            ELSE IF found_foreign_words > 0 THEN FALSE
            ELSE IF Uncertain(english_word_count, total_words) THEN FALSE
            ELSE TRUE

\* is_english_file (lines 87-125)
is_english_file(filename) ==
    \E decoded_name \in {Lower(unquote(filename))} :
    \E words \in {Words(decoded_name)} :
        LET total_words == Len(words)
            english_word_count == CountIn(words, COMMON_ENGLISH_WORDS)
            found_foreign_words == CountIn(words, FOREIGN_STOPWORDS)
        IN  IF \E n \in 1..Len(NON_ENGLISH_PATTERNS) : MatchesPattern(decoded_name, n)
            THEN FALSE
            ELSE IF found_foreign_words > 0 THEN FALSE
            ELSE IF Uncertain(english_word_count, total_words) THEN TRUE
            ELSE TRUE

\* line 18
PREFERRED_DOMAIN ==
    <<"d", "o", "w", "n", "l", "o", "a", "d", ".", "e", "x", "a", "m", "p", "l", "e", ".", "l", "o", "l">>

\* scheme and host of the links the site serves
HostPrefix ==
    <<"h", "t", "t", "p", "s", ":", "/", "/", "d", "o", "w", "n", "l", "o", "a", "d", ".", "e", "x", "a", "m", "p", "l", "e", ".", "l", "o", "l">>
(***************************************************************************)
(* The links of the site.  An href is the text of an anchor's href.        *)
(***************************************************************************)
UrlA == HostPrefix \o <<"/", "d", "1", "/", "a", ".", "p", "d", "f">>
\* another URL whose last segment decodes to a.pdf
UrlB == HostPrefix \o <<"/", "d", "2", "/", "%", "6", "1", ".", "p", "d", "f">>
UrlC == HostPrefix \o <<"/", "d", "1", "/", "c", ".", "e", "p", "u", "b">>
\* a name with the foreign stopword "la" as a word of its own
UrlF == HostPrefix \o <<"/", "d", "1", "/", "l", "a", "-", "v", "i", "e", ".", "P", "D", "F">>
\* a link of another host
UrlX == <<"h", "t", "t", "p", ":", "/", "/", "x", ".", "o", "r", "g", "/", "x", ".", "p", "d", "f">>
\* names with an underscore in them; the second is the percent-encoded
\* matematica_avanzada.pdf, its sixth letter an a with acute accent
UrlFooBar == HostPrefix \o <<"/", "d", "3", "/", "f", "o", "o", "_", "b", "a", "r", ".", "p", "d", "f">>
UrlMatematica ==
    HostPrefix \o <<"/", "d", "3", "/", "m", "a", "t", "e", "m", "%", "C", "3", "%", "A", "1", "t", "i", "c", "a">>
       \o <<"_", "a", "v", "a", "n", "z", "a", "d", "a", ".", "p", "d", "f">>
\* a file link with a query string, a link of a host that has the preferred
\* domain inside its name, and a link whose extension is in its query string
UrlQuery == HostPrefix \o <<"/", "q", ".", "p", "d", "f", "?", "x", "=", "1">>
UrlSubHost ==
    HostPrefix \o <<".", "x", ".", "o", "r", "g", "/", "s", ".", "p", "d", "f">>
UrlView ==
    HostPrefix \o <<"/", "v", "i", "e", "w", "?", "f", "=", "v", ".", "p", "d", "f">>
PoolUrl(c) == HostPrefix \o <<"/", "p", "/", c, ".", "p", "d", "f">>

\* the anchors a catalogue page may carry
Pages ==
    {<<>>, <<UrlA, UrlA>>, <<UrlA, UrlB>>, <<UrlA, UrlC, UrlF, UrlX>>,
     <<UrlFooBar, UrlMatematica>>, <<UrlQuery, UrlSubHost, UrlView>>}
\* a page with more accepted links than the pool has workers
PoolPage == <<PoolUrl("1"), PoolUrl("2"), PoolUrl("3"), PoolUrl("4"), PoolUrl("5")>>

\* the first index of character c in s at or after i, Len(s) + 1 when none
RECURSIVE FindFirst(_, _, _)
FindFirst(s, set, i) ==
    IF i > Len(s) THEN Len(s) + 1
    ELSE IF s[i] \in set THEN i
    ELSE FindFirst(s, set, i + 1)

\* urlparse(href).netloc: what follows "//" after the scheme, up to the
\* first "/", "?" or "#"
SchemeChars == LowerLetters \cup UpperLetters \cup Digits \cup {"+", "-", "."}
SchemeEnd(href) ==
    LET c == FindFirst(href, {":"}, 1)
    IN  IF /\ c <= Len(href)
           /\ c > 1
           /\ href[1] \in LowerLetters \cup UpperLetters
           /\ \A k \in 1..(c - 1) : href[k] \in SchemeChars
        THEN c ELSE 0
netloc(href) ==
    LET b == SchemeEnd(href) + 1
    IN  IF b + 1 <= Len(href) /\ href[b] = "/" /\ href[b + 1] = "/"
        THEN SubSeq(href, b + 2, FindFirst(href, {"/", "?", "#"}, b + 2) - 1)
        ELSE <<>>

\* the filter of lines 76-77
IsFileLink(href) ==
    /\ \/ EndsWith(Lower(href), <<".", "e", "p", "u", "b">>)
       \/ EndsWith(Lower(href), <<".", "p", "d", "f">>)
    /\ Contains(netloc(href), PREFERRED_DOMAIN)

\* the list comprehension of lines 74-78
ExtractLinks(hrefs) == Pick(hrefs, {i \in 1..Len(hrefs) : IsFileLink(hrefs[i])})

(***************************************************************************)
(* The checkpoint file COMPLETED.TXT.                                      *)
(***************************************************************************)
\* a file is its content, and NoFile when it does not exist
NoFile == [exists |-> FALSE, content |-> <<>>]
FileOf(text) == [exists |-> TRUE, content |-> text]

DigitChars == <<"0", "1", "2", "3", "4", "5", "6", "7", "8", "9">>
DigitOf(n) == DigitChars[n + 1]
ValueOf(c) == CHOOSE n \in 0..9 : DigitChars[n + 1] = c

\* str(n)
RECURSIVE StrNat(_)
StrNat(n) == IF n < 10 THEN <<DigitOf(n)>> ELSE StrNat(n \div 10) \o <<DigitOf(n % 10)>>
Str(n) == IF n < 0 THEN <<"-">> \o StrNat(0 - n) ELSE StrNat(n)

\* str.strip()
Whitespace == {" ", "nl"}
RECURSIVE LStrip(_)
LStrip(s) == IF s # <<>> /\ Head(s) \in Whitespace THEN LStrip(Tail(s)) ELSE s
RECURSIVE RStrip(_)
RStrip(s) ==
    IF s # <<>> /\ s[Len(s)] \in Whitespace THEN RStrip(SubSeq(s, 1, Len(s) - 1)) ELSE s
Strip(s) == LStrip(RStrip(s))

\* int(s): an optional sign and then digits, else ValueError
Unsigned(s) == IF s # <<>> /\ Head(s) \in {"+", "-"} THEN Tail(s) ELSE s
IsIntText(s) == Unsigned(s) # <<>> /\ \A i \in 1..Len(Unsigned(s)) : Unsigned(s)[i] \in Digits
RECURSIVE NatOf(_)
NatOf(s) == IF s = <<>> THEN 0 ELSE NatOf(SubSeq(s, 1, Len(s) - 1)) * 10 + ValueOf(s[Len(s)])
IntOf(s) == IF Head(s) = "-" THEN 0 - NatOf(Unsigned(s)) ELSE NatOf(Unsigned(s))

\* read_last_completed (lines 40-48)
read_last_completed(file) ==
    IF file.exists /\ IsIntText(Strip(file.content))
    THEN IntOf(Strip(file.content))
    ELSE 1

\* write_last_completed (lines 50-53): the content the file is left with
write_last_completed(page_number) == FileOf(Str(page_number))

(***************************************************************************)
(* State.                                                                  *)
(***************************************************************************)
VARIABLES
    args,          \* the command line: [start, end]
    catalog,       \* the anchor lists the site serves
    completed,     \* the file COMPLETED.TXT
    pc,            \* the position of the main thread
    start_page,    \* main's start_page
    page,          \* main's page_number
    attempt,       \* fetch_page_links' attempt
    requests,      \* the requests.get calls of this page's fetch_page_links
    saw404,        \* one of them returned 404
    fetchEnd,      \* how fetch_page_links returned for this page
    links,         \* file_links
    anchors,       \* the hrefs of the anchors of this page's response
    unique_links,  \* process_links' unique_links
    tasks,         \* the download_with_wget calls given to the executor
    cwd,           \* the files of the working directory, by name
    downloads,     \* the files of the downloads directory, by name
    visited,       \* the pages process_page_with_retries was called for
    written,       \* the pages write_last_completed was called for
    succeeded,     \* the links a download_with_wget call moved into place
    store,         \* a writer and a reader of COMPLETED.TXT, on their own
    classified     \* a file name given to is_english_file, and the verdict

vars ==
    <<args, catalog, completed, pc, start_page, page, attempt, requests, saw404,
      fetchEnd, links, anchors, unique_links, tasks, cwd, downloads, visited,
      written, succeeded, store, classified>>

\* an option of the command line: <<>> when absent, <<n>> when given
NoArg == <<>>
Arg(n) == <<n>>
InitialCompleted == {NoFile, FileOf(<<"2">>), FileOf(<<"x">>)}
EmptyDir == [n \in {} |-> 0]

\* the state of main's locals before a page is fetched
mainVars == <<args, catalog, start_page>>
fetchVars == <<attempt, requests, saw404, fetchEnd, links, anchors>>
\* the functions exercised on their own
unitVars == <<store, classified>>

\* no writer or reader of the checkpoint besides main
NoStore ==
    [wpc |-> "idle", wval |-> 0, old |-> NoFile, last |-> 0,
     read |-> FALSE, rval |-> 0, rfrom |-> NoFile, rduring |-> FALSE]
\* no file name classified on its own
NoVerdict == [name |-> <<>>, done |-> FALSE, english |-> FALSE]
poolVars == <<unique_links, tasks, cwd, downloads, succeeded>>

Init ==
    /\ args \in [start : {NoArg} \cup {Arg(n) : n \in 1..MaxPage}, end : 1..MaxPage]
    /\ catalog = Pages
    /\ completed \in InitialCompleted
    /\ pc = "start"
    /\ start_page = 0
    /\ page = 0
    /\ attempt = 0
    /\ requests = 0
    /\ saw404 = FALSE
    /\ fetchEnd = "none"
    /\ links = <<>>
    /\ anchors = <<>>
    /\ store = NoStore
    /\ classified = NoVerdict
    /\ unique_links = <<>>
    /\ tasks = <<>>
    /\ cwd = EmptyDir
    /\ downloads = EmptyDir
    /\ visited = <<>>
    /\ written = {}
    /\ succeeded = {}

(***************************************************************************)
(* The crawl driver.                                                       *)
(***************************************************************************)
\* range(start_page, end_page + 1) is exhausted at page_number (line 211)
LoopDone(page_number, end_page) == page_number > end_page

\* lines 225-226 and the first iteration of line 211
Main ==
    /\ pc = "start"
    /\ LET s == IF args.start \notin {NoArg, Arg(0)}
                THEN args.start[1]
                ELSE read_last_completed(completed)
       IN  /\ start_page' = s
           /\ page' = s
           /\ IF LoopDone(s, args.end)
              THEN pc' = "done" /\ visited' = visited
              ELSE pc' = "fetch" /\ visited' = <<s>>
    /\ UNCHANGED <<args, catalog, unitVars, completed, fetchVars, poolVars, written>>

\* as if a 404 were retried like a 503
AttemptResult_404Retried(status, att) ==
    IF status = "ok" THEN "ok"
    ELSE IF att = SERVICE_UNAVAILABLE_RETRIES THEN "exhausted"
    ELSE "retry"

\* what one request's status does to the loop of lines 58-84
AttemptResult(status, att) ==
    IF status = "404" THEN "notfound"
    ELSE IF status = "ok" THEN "ok"
    ELSE IF att = SERVICE_UNAVAILABLE_RETRIES THEN "exhausted"
    ELSE "retry"

FetchStatuses == {"ok", "404", "503", "transport", "other"}

\* as if an empty result made the loop of line 196 fetch the page again
AfterFetch_RetryEmpty(file_links) == IF file_links = <<>> THEN "fetch" ELSE "links"

\* where process_page_with_retries goes with what fetch_page_links returned
\* (lines 196-205): it returns, or calls process_links; it never calls
\* fetch_page_links again
AfterFetch(file_links) == IF file_links = <<>> THEN "write" ELSE "links"

\* one iteration of the loop of fetch_page_links (lines 58-84), and the
\* test of line 200 when the function returns
FetchAttempt(status, hrefs) ==
    /\ pc = "fetch"
    /\ requests' = requests + 1
    /\ saw404' = (saw404 \/ status = "404")
    /\ LET r == AttemptResult(status, attempt)
           found == IF r = "ok" THEN ExtractLinks(hrefs) ELSE <<>>
       IN  IF r = "retry"
           THEN /\ attempt' = attempt + 1
                /\ UNCHANGED <<pc, fetchEnd, links, anchors>>
           ELSE /\ fetchEnd' = r
                /\ links' = found
                /\ anchors' = IF r = "ok" THEN hrefs ELSE <<>>
                /\ pc' = AfterFetch(found)
                /\ UNCHANGED attempt
    /\ UNCHANGED <<mainVars, unitVars, completed, page, poolVars, visited, written>>

fetch_page_links ==
    \E status \in FetchStatuses : \E hrefs \in catalog : FetchAttempt(status, hrefs)

(***************************************************************************)
(* The download scheduler.                                                 *)
(***************************************************************************)
\* as if line 170 were list(links)
UniqueLinks_Kept(ls) == ls

\* list(set(links)) (line 170): each link once; the order of a set is not
\* defined, and the workers below take the tasks in any order
UniqueLinks(ls) ==
    Pick(ls, {i \in 1..Len(ls) : \A j \in 1..(i - 1) : ls[j] # ls[i]})

\* lines 175-176
Accepted(link) == is_english_file(friendly_filename(link))

\* a call of download_with_wget: its filename (line 133), its position, the loop's attempt, the
\* sleeps it has made and the server-busy exits it has seen in the loop,
\* whether final_path existed at line 137, whether an earlier call for the
\* link had succeeded, and how the call ended
NewTask(link) ==
    [url |-> link, filename |-> friendly_filename(link), pc |-> "queued",
     attempt |-> 0, waits |-> 0, busy |-> 0,
     existed |-> FALSE, again |-> FALSE, result |-> "none"]

\* process_links up to the submission of the tasks (lines 170-192)
process_links ==
    /\ pc = "links"
    /\ unique_links' = UniqueLinks(links)
    /\ \E filtered_links \in {SelectSeq(UniqueLinks(links), Accepted)} :
           /\ tasks' = [i \in 1..Len(filtered_links) |-> NewTask(filtered_links[i])]
           /\ pc' = IF filtered_links = <<>> THEN "write" ELSE "pool"
    \* fetch_page_links has returned: its locals are gone
    /\ attempt' = 0
    /\ requests' = 0
    /\ UNCHANGED <<mainVars, unitVars, completed, page, saw404, fetchEnd, links, anchors,
                   cwd, downloads,
                   succeeded, visited, written>>

InFlight == {i \in 1..Len(tasks) : tasks[i].pc \notin {"queued", "done"}}

\* as if every task had a thread of its own
WorkerIdle_Unbounded(running) == TRUE

\* ThreadPoolExecutor(max_workers=MAX_CONCURRENT_DOWNLOADS): a queued task
\* starts when fewer than max_workers tasks are running (line 191)
WorkerIdle(running) == Cardinality(running) < MAX_CONCURRENT_DOWNLOADS

\* temp_path and final_path are this name in the working directory and in
\* the downloads directory (lines 134-135)
Name(i) == tasks[i].filename
Without(dir, n) == [x \in (DOMAIN dir) \ {n} |-> dir[x]]
With(dir, n, file) == [x \in (DOMAIN dir) \cup {n} |-> IF x = n THEN file ELSE dir[x]]
\* the loop's counters end with the loop
LeaveLoop(t) == [t EXCEPT !.attempt = 0, !.waits = 0, !.busy = 0]
Finish(t, outcome) == [LeaveLoop(t) EXCEPT !.pc = "done", !.result = outcome]

otherVars ==
    <<mainVars, unitVars, completed, pc, page, fetchVars, unique_links, visited, written>>

\* as if line 137 tested temp_path
FinalExists_TempChecked(n, working, completed_dir) == n \in DOMAIN working

\* os.path.exists(final_path) of line 137
FinalExists(n, working, completed_dir) == n \in DOMAIN completed_dir

\* a worker takes the task: lines 133-139
TaskStart(i) ==
    /\ pc = "pool"
    /\ tasks[i].pc = "queued"
    /\ WorkerIdle(InFlight)
    /\ LET t == [tasks[i] EXCEPT !.again = (tasks[i].url \in succeeded),
                                  !.existed = (Name(i) \in DOMAIN downloads)]
       IN  IF FinalExists(Name(i), cwd, downloads)
           THEN tasks' = [tasks EXCEPT ![i] = Finish(t, "AlreadyComplete")]
           ELSE tasks' = [tasks EXCEPT ![i] = [t EXCEPT !.pc = "wget"]]
    /\ UNCHANGED <<otherVars, cwd, downloads, succeeded>>

\* wget -c -O temp_path opens temp_path for writing (lines 144-147)
WgetStart(i) ==
    /\ pc = "pool"
    /\ tasks[i].pc = "wget"
    /\ tasks' = [tasks EXCEPT ![i].pc = "running"]
    /\ cwd' = IF Name(i) \in DOMAIN cwd
              THEN [cwd EXCEPT ![Name(i)].writers = @ \cup {i},
                               ![Name(i)].complete = FALSE]
              ELSE With(cwd, Name(i), [complete |-> FALSE, writers |-> {i}])
    /\ UNCHANGED <<otherVars, downloads, succeeded>>

\* the file of a directory after task i's wget has exited with code
Closed(dir, i, code) ==
    [n \in DOMAIN dir |->
        IF i \in dir[n].writers
        THEN [complete |-> IF code = 0 THEN TRUE ELSE dir[n].complete,
              writers |-> dir[n].writers \ {i}]
        ELSE dir[n]]

\* where the loop of lines 141-161 goes after wget's exit code
AfterExit(code, att) ==
    IF code = 0 THEN "move"
    ELSE IF code = 8
         THEN (IF att = SERVICE_UNAVAILABLE_RETRIES THEN "cleanup" ELSE "wget")
         ELSE "cleanup"

\* the sleeps of line 158 after an exit code
Waits(code) == IF code = 8 THEN 1 ELSE 0

ExitCodes == {0, 8, 1}

\* wget exits (lines 148-161)
WgetExit(i, code) ==
    /\ pc = "pool"
    /\ tasks[i].pc = "running"
    /\ cwd' = Closed(cwd, i, code)
    /\ downloads' = Closed(downloads, i, code)
    /\ LET next == AfterExit(code, tasks[i].attempt)
           t == [tasks[i] EXCEPT
                    !.pc = next,
                    !.waits = @ + Waits(code),
                    !.busy = IF code = 8 THEN @ + 1 ELSE @,
                    !.attempt = IF next = "wget" THEN @ + 1 ELSE @]
       IN  tasks' = [tasks EXCEPT ![i] = IF next = "cleanup" THEN LeaveLoop(t) ELSE t]
    /\ UNCHANGED <<otherVars, succeeded>>

\* shutil.move(temp_path, final_path) (lines 151-153); it raises when
\* temp_path is gone
Move(i) ==
    /\ pc = "pool"
    /\ tasks[i].pc = "move"
    /\ IF Name(i) \in DOMAIN cwd
       THEN /\ downloads' = With(downloads, Name(i), cwd[Name(i)])
            /\ cwd' = Without(cwd, Name(i))
            /\ tasks' = [tasks EXCEPT ![i] = Finish(@, "Succeeded")]
            /\ succeeded' = succeeded \cup {tasks[i].url}
       ELSE /\ tasks' = [tasks EXCEPT ![i] = Finish(@, "Raised")]
            /\ UNCHANGED <<cwd, downloads, succeeded>>
    /\ UNCHANGED otherVars

\* os.path.exists(temp_path) of line 163
CleanupCheck(i) ==
    /\ pc = "pool"
    /\ tasks[i].pc = "cleanup"
    /\ IF Name(i) \in DOMAIN cwd
       THEN tasks' = [tasks EXCEPT ![i].pc = "remove"]
       ELSE tasks' = [tasks EXCEPT ![i] = Finish(@, "Failed")]
    /\ UNCHANGED <<otherVars, cwd, downloads, succeeded>>

\* os.remove(temp_path) of line 164; it raises when temp_path is gone
CleanupRemove(i) ==
    /\ pc = "pool"
    /\ tasks[i].pc = "remove"
    /\ IF Name(i) \in DOMAIN cwd
       THEN /\ cwd' = Without(cwd, Name(i))
            /\ tasks' = [tasks EXCEPT ![i] = Finish(@, "Failed")]
       ELSE /\ tasks' = [tasks EXCEPT ![i] = Finish(@, "Raised")]
            /\ UNCHANGED cwd
    /\ UNCHANGED <<otherVars, downloads, succeeded>>

download_with_wget ==
    \E i \in 1..Len(tasks) :
        \/ TaskStart(i)
        \/ WgetStart(i)
        \/ \E code \in ExitCodes : WgetExit(i, code)
        \/ Move(i)
        \/ CleanupCheck(i)
        \/ CleanupRemove(i)

\* as if the first failure shut the pool down
PoolIdle_FirstFailure(ts) ==
    \/ \A i \in 1..Len(ts) : ts[i].pc = "done"
    \/ \E i \in 1..Len(ts) : ts[i].result \in {"Failed", "Raised"}

\* the executor's shutdown at the end of the with block (line 191) waits
\* for the tasks given to it
PoolIdle(ts) == \A i \in 1..Len(ts) : ts[i].pc = "done"

\* as if the results were read: list(executor.map(...))
ResultsRaise_Read(ts) == \E i \in 1..Len(ts) : ts[i].result = "Raised"

\* the iterator executor.map returns is never read (line 192), so what a
\* task raised stays in its future and is not raised in the main thread
ResultsRaise(ts) == FALSE

PoolJoin ==
    /\ pc = "pool"
    /\ PoolIdle(tasks)
    /\ pc' = IF ResultsRaise(tasks) THEN "aborted" ELSE "write"
    /\ UNCHANGED <<mainVars, unitVars, completed, page, fetchVars, poolVars, visited, written>>

\* what process_page_with_retries returns (lines 200-205): both returns of
\* the loop's first iteration are True, so line 208 is never reached
process_page_with_retries(file_links) ==
    IF file_links = <<>> THEN TRUE ELSE TRUE

\* lines 212-216
WriteCheckpoint ==
    /\ pc = "write"
    /\ IF process_page_with_retries(links)
       THEN /\ completed' = write_last_completed(page)
            /\ written' = written \cup {page}
       ELSE UNCHANGED <<completed, written>>
    /\ pc' = "pause"
    /\ UNCHANGED <<mainVars, unitVars, page, fetchVars, poolVars, visited>>

\* line 217 and the next iteration of line 211
Pause ==
    /\ pc = "pause"
    /\ page' = page + 1
    /\ IF LoopDone(page + 1, args.end)
       THEN pc' = "done" /\ visited' = visited
       ELSE pc' = "fetch" /\ visited' = Append(visited, page + 1)
    /\ attempt' = 0
    /\ requests' = 0
    /\ saw404' = FALSE
    /\ fetchEnd' = "none"
    /\ links' = <<>>
    /\ anchors' = <<>>
    /\ unique_links' = <<>>
    /\ tasks' = <<>>
    /\ UNCHANGED <<mainVars, unitVars, completed, cwd, downloads, succeeded, written>>

Next ==
    \/ Main
    \/ fetch_page_links
    \/ process_links
    \/ download_with_wget
    \/ PoolJoin
    \/ WriteCheckpoint
    \/ Pause

Spec == Init /\ [][Next]_vars

\* every thread that can take a step eventually takes one
FairSpec == Spec /\ WF_vars(Next)

\* one page with more links than workers
InitPool ==
    /\ args = [start |-> Arg(1), end |-> 1]
    /\ catalog = {PoolPage}
    /\ completed = NoFile
    /\ pc = "start"
    /\ start_page = 0
    /\ page = 0
    /\ attempt = 0
    /\ requests = 0
    /\ saw404 = FALSE
    /\ fetchEnd = "none"
    /\ links = <<>>
    /\ anchors = <<>>
    /\ store = NoStore
    /\ classified = NoVerdict
    /\ unique_links = <<>>
    /\ tasks = <<>>
    /\ cwd = EmptyDir
    /\ downloads = EmptyDir
    /\ visited = <<>>
    /\ written = {}
    /\ succeeded = {}

PoolSpec == InitPool /\ [][Next]_vars

(***************************************************************************)
(* The checkpoint store on its own: a writer running write_last_completed  *)
(* and a reader running read_last_completed on the same file.              *)
(***************************************************************************)
\* the values of the program's variables when nothing has run
Fresh ==
    /\ args = [start |-> NoArg, end |-> 1]
    /\ catalog = {<<>>}
    /\ pc = "unit"
    /\ start_page = 0
    /\ page = 0
    /\ attempt = 0
    /\ requests = 0
    /\ saw404 = FALSE
    /\ fetchEnd = "none"
    /\ links = <<>>
    /\ anchors = <<>>
    /\ unique_links = <<>>
    /\ tasks = <<>>
    /\ cwd = EmptyDir
    /\ downloads = EmptyDir
    /\ visited = <<>>
    /\ written = {}
    /\ succeeded = {}

programVars ==
    <<args, catalog, pc, start_page, page, fetchVars, poolVars, visited, written>>

\* what COMPLETED.TXT may hold when the program starts: nothing, what an
\* earlier run wrote (a run with --start -3 writes -3 .. 0 on its way), or
\* what was left by hand
StoreContents ==
    {NoFile, FileOf(<<>>), FileOf(<<"x">>), FileOf(<<"0">>), FileOf(<<"-", "3">>),
     FileOf(<<" ", "7", "nl">>), FileOf(<<"5">>), FileOf(<<"1", "2">>)}

StoreInit ==
    /\ Fresh
    /\ completed \in StoreContents
    /\ store = NoStore
    /\ classified = NoVerdict

\* as if line 52 opened the file with mode "a"
Truncated_Append(file) == IF file.exists THEN file ELSE FileOf(<<>>)

\* open(COMPLETED_FILE, "w") (line 52): the file exists and is empty
Truncated(file) == FileOf(<<>>)

\* open(COMPLETED_FILE, "w") of write_last_completed(n)
StoreWriteOpen(n) ==
    /\ store.wpc = "idle"
    /\ completed' = Truncated(completed)
    /\ store' = [store EXCEPT !.wpc = "open", !.wval = n, !.old = completed,
                              !.read = FALSE]
    /\ UNCHANGED <<programVars, classified>>

\* f.write(str(page_number)) and the close at the end of the with block
\* (lines 52-53): the text reaches the file
StoreWriteClose ==
    /\ store.wpc = "open"
    /\ completed' = FileOf(completed.content \o Str(store.wval))
    /\ store' = [store EXCEPT !.wpc = "idle", !.last = store.wval, !.read = FALSE]
    /\ UNCHANGED <<programVars, classified>>

\* read_last_completed() by the reader
StoreRead ==
    /\ store' = [store EXCEPT !.read = TRUE,
                              !.rval = read_last_completed(completed),
                              !.rfrom = completed,
                              !.rduring = (store.wpc = "open")]
    /\ UNCHANGED <<programVars, completed, classified>>

StoreNext ==
    \/ \E n \in 1..MaxNumber : StoreWriteOpen(n)
    \/ StoreWriteClose
    \/ StoreRead

StoreSpec == StoreInit /\ [][StoreNext]_vars


(***************************************************************************)
(* The classifier on its own: is_english_file applied to one file name.    *)
(***************************************************************************)
\* the characters of the names: letters that spell the stopwords "la" and
\* "y" and the common word "a", an upper-case letter, separators, Cyrillic
\* letters inside and outside the range of line 95, and the escape %79 of "y"
NameChars == {"l", "a", "y", "L", "_", ".", "cyr_a", "cyr_yo", "%", "7", "9"}
RECURSIVE NamesOfLen(_)
NamesOfLen(n) ==
    IF n = 0 THEN {<<>>}
    ELSE {Append(name, c) : name \in NamesOfLen(n - 1), c \in NameChars}
Names == UNION {NamesOfLen(n) : n \in 0..MaxNameLen}

ClassifyInit ==
    /\ Fresh
    /\ completed = NoFile
    /\ store = NoStore
    /\ classified \in {[NoVerdict EXCEPT !.name = name] : name \in Names}

\* is_english_file(filename)
Classify ==
    /\ ~classified.done
    /\ classified' = [classified EXCEPT !.done = TRUE,
                                        !.english = is_english_file(classified.name)]
    /\ UNCHANGED <<programVars, completed, store>>

ClassifyNext == Classify

ClassifySpec == ClassifyInit /\ [][ClassifyNext]_vars

(***************************************************************************)
(* Properties.                                                             *)
(***************************************************************************)
TaskIds == 1..Len(tasks)
PageRange(first, last) == [k \in 1..(last - first + 1) |-> first + k - 1]

\* C1: the checkpoint is written for a page only when that page's fetch
\* ended in a success response or a 404, never when every attempt failed.
C1_NoCheckpointAfterFailedFetch ==
    page \in written => fetchEnd \in {"ok", "notfound"}

\* C2: whatever the fetches and the downloads do, the run ends, and it has
\* then visited every page from start to end once, in increasing order.
C2_RunVisitsEveryPage ==
    <>(pc = "done" /\ visited = PageRange(start_page, args.end))

\* the last of two pages has been handled although a download failed
C2_Witness ==
    /\ pc = "pause"
    /\ page = args.end
    /\ Len(visited) >= 2
    /\ \E i \in TaskIds : tasks[i].result \in {"Failed", "Raised"}

\* C3: at most MAX_CONCURRENT_DOWNLOADS downloads are in flight at any time.
C3_BoundedInFlight == Cardinality(InFlight) <= MAX_CONCURRENT_DOWNLOADS

\* every worker is busy and a task is still waiting
C3_Witness ==
    /\ Cardinality(InFlight) = MAX_CONCURRENT_DOWNLOADS
    /\ \E i \in TaskIds : tasks[i].pc = "queued"

\* C4: no two download tasks of one process_links call have the same
\* destination (or temporary) path.
C4_DistinctDestinations ==
    \A i, j \in TaskIds : i # j => Name(i) # Name(j)

\* C5: a URL that occurs in the page's links, however often, is classified
\* once and gets exactly one download task when it is accepted (none when it
\* is rejected).
C5_DuplicateUrlOneTask ==
    pc = "pool" =>
        \A k \in 1..Len(links) :
            /\ Cardinality({i \in 1..Len(unique_links) : unique_links[i] = links[k]}) = 1
            /\ Cardinality({i \in TaskIds : tasks[i].url = links[k]})
                  = IF Accepted(links[k]) THEN 1 ELSE 0

\* a link occurs twice and has one task
C5_Witness ==
    /\ pc = "pool"
    /\ \E k, l \in 1..Len(links) : k # l /\ links[k] = links[l]
    /\ \E i \in TaskIds : tasks[i].url = links[1] /\ tasks[i].pc = "running"

\* C6: once a request for the page has returned 404, fetch_page_links has
\* returned no links and makes no further request, and the driver writes the
\* checkpoint with the page's number.
C6_NotFoundStopsAndCheckpoints ==
    saw404 =>
        /\ pc \in {"write", "pause"}
        /\ fetchEnd = "notfound"
        /\ links = <<>>
        /\ requests = attempt + 1
        /\ pc = "pause" => completed = FileOf(Str(page)) /\ page \in written

\* a 404 on a later attempt, and the checkpoint holds the page
C6_Witness ==
    /\ saw404
    /\ attempt > 0
    /\ pc = "pause"
    /\ completed = FileOf(Str(page))

\* C7: a download whose destination did not exist, which saw k server-busy
\* exits and then a successful one, returns Succeeded with the file moved to
\* the destination after exactly k waits.
C7_BusyThenSuccess ==
    [][pc = "pool" =>
         \A i \in TaskIds :
             (tasks[i].pc = "move" /\ tasks'[i].pc = "done") =>
                 /\ tasks'[i].result = "Succeeded"
                 /\ Name(i) \in DOMAIN downloads'
                 /\ Name(i) \notin DOMAIN cwd'
                 /\ tasks[i].waits = tasks[i].busy
                 /\ tasks[i].busy = tasks[i].attempt]_vars

\* C8: after a failure that is not server-busy no further attempt is made,
\* and a download that ends by such a failure or by exhausting its attempts
\* returns Failed with no temp file left and no file at the destination.
C8_FailureCleansUp ==
    [][pc = "pool" =>
         \A i \in TaskIds :
             tasks[i].pc \in {"cleanup", "remove"} =>
                 /\ tasks'[i].pc \in {"cleanup", "remove", "done"}
                 /\ tasks'[i].pc = "done" =>
                        /\ tasks'[i].result = "Failed"
                        /\ Name(i) \notin DOMAIN cwd'
                        /\ Name(i) \notin DOMAIN downloads']_vars

C10_AlreadyCompleteIsIdempotent ==
    \A i \in TaskIds :
        /\ tasks[i].existed =>
               tasks[i].pc = "done" /\ tasks[i].result = "AlreadyComplete"
        /\ (tasks[i].again /\ tasks[i].pc # "queued") => tasks[i].existed

\* a link downloaded on an earlier page is asked for again
C10_Witness ==
    \E i \in TaskIds :
        /\ tasks[i].again
        /\ tasks[i].result = "AlreadyComplete"
        /\ downloads[Name(i)].complete

\* the page number COMPLETED.TXT holds
Stored(file) == IntOf(Strip(file.content))
HoldsNumber(file) == file.exists /\ IsIntText(Strip(file.content))

\* C11: a write of the checkpoint never lowers the stored page number, also
\* in a run started with --start below the stored checkpoint.
C11_CheckpointNeverLowered ==
    [][(HoldsNumber(completed) /\ completed' # completed)
          => Stored(completed') >= Stored(completed)]_vars

IsPositive(file) == HoldsNumber(file) /\ Stored(file) > 0

\* C12: read_last_completed returns the stored value only when the file
\* exists and holds a positive integer; in every other case (no file, empty
\* or non-numeric text, zero, a negative integer) it returns 1.
C12_ReadIsPositiveOrDefault ==
    store.read =>
        /\ store.rval = IF IsPositive(store.rfrom) THEN Stored(store.rfrom) ELSE 1
        /\ store.rval >= 1

C14_RoundTrip ==
    (store.read /\ store.wpc = "idle" /\ store.last > 0) => store.rval = store.last

\* a number of two digits was written over text that is no number, and read
C14_Witness ==
    /\ store.read
    /\ store.wpc = "idle"
    /\ store.last >= 10
    /\ ~HoldsNumber(store.old)
    /\ store.old.exists
    /\ store.rval = store.last

\* the name with every underscore taken as a separator
UnderscoresApart(s) == [i \in 1..Len(s) |-> IF s[i] = "_" THEN " " ELSE s[i]]
StopwordJoined(name) ==
    \E words \in {Words(UnderscoresApart(Lower(name)))} :
        \E i \in 1..Len(words) : words[i] \in FOREIGN_STOPWORDS

\* C15: of the links foo_bar.pdf and matematica_avanzada.pdf (with a-acute)
\* process_links schedules foo_bar.pdf only; no scheduled name holds a
\* foreign stopword joined to other letters by an underscore.
C15_UnderscoreStopwordRejected ==
    /\ (pc = "pool" /\ links = <<UrlFooBar, UrlMatematica>>)
          => {tasks[i].url : i \in TaskIds} = {UrlFooBar}
    /\ \A i \in TaskIds : ~StopwordJoined(tasks[i].filename)

\* the ranges of lines 93-95
RangeChars ==
    CJKInRange \cup GreekInRange \cup CyrillicInRange
\* s[i..j] is a maximal run of letters, digits and underscores
IsToken(s, i, j) ==
    /\ i <= j
    /\ \A k \in i..j : s[k] \in WordChars
    /\ (i = 1 \/ s[i - 1] \notin WordChars)
    /\ (j = Len(s) \/ s[j + 1] \notin WordChars)
HasRangeChar(s) == \E i \in 1..Len(s) : s[i] \in RangeChars
HasStopwordToken(s) ==
    \E i, j \in 1..Len(s) : IsToken(s, i, j) /\ SubSeq(s, i, j) \in FOREIGN_STOPWORDS
HasToken(s) == \E i \in 1..Len(s) : s[i] \in WordChars
\* decoded_name of line 89
Decoded(name) == Lower(unquote(name))

UrlPath(href) ==
    LET b == SchemeEnd(href) + 3 + Len(netloc(href))
    IN  SubSeq(href, b, FindFirst(href, {"?", "#"}, b) - 1)
UrlHost(href) == Lower(netloc(href))
PathIsFile(href) ==
    \/ EndsWith(Lower(UrlPath(href)), <<".", "e", "p", "u", "b">>)
    \/ EndsWith(Lower(UrlPath(href)), <<".", "p", "d", "f">>)

\* C17: after a success response fetch_page_links has returned exactly the
\* hrefs whose path ends in .epub or .pdf, in any case, and whose host is
\* the preferred domain.
C17_ReturnsPathAndHostMatches ==
    fetchEnd = "ok" =>
        links = Pick(anchors, {i \in 1..Len(anchors) :
                                  PathIsFile(anchors[i]) /\ UrlHost(anchors[i]) = PREFERRED_DOMAIN})

\* C18: a run makes at most SERVICE_UNAVAILABLE_RETRIES + 1 requests for a
\* page, whatever the statuses: every failed request uses the one counter,
\* fetch_page_links is not called a second time for the page, and when every
\* attempt has failed it returns no links and the run goes on.
C18_BoundedRequestsPerPage ==
    /\ requests <= SERVICE_UNAVAILABLE_RETRIES + 1
    /\ pc = "fetch" => requests = attempt
    /\ fetchEnd = "exhausted" =>
          /\ links = <<>>
          /\ pc \in {"write", "pause"}
          /\ pc = "write" => requests = SERVICE_UNAVAILABLE_RETRIES + 1

\* every attempt for the page has failed and the call has returned
C18_Witness ==
    /\ fetchEnd = "exhausted"
    /\ pc = "write"
    /\ requests = SERVICE_UNAVAILABLE_RETRIES + 1
    /\ links = <<>>

\* C19: process_links returns only when every task it submitted has ended,
\* the checkpoint of a page is written after that return, the next page is
\* fetched after that write, and only the current page's downloads are ever
\* in flight.
C19_OrderedAroundBarrier ==
    /\ pc \in {"write", "pause"} => \A i \in TaskIds : tasks[i].pc = "done"
    /\ pc = "pause" => (page \in written /\ completed = write_last_completed(page))
    /\ pc \in {"fetch", "links"} =>
          /\ tasks = <<>>
          /\ page > start_page =>
                (page - 1 \in written /\ completed = write_last_completed(page - 1))
    /\ \A i \in TaskIds : \E k \in 1..Len(links) : tasks[i].url = links[k]

\* the fetch of the next page begins after a page whose download succeeded
C19_Witness ==
    /\ pc = "fetch"
    /\ page > start_page
    /\ page - 1 \in written
    /\ succeeded # {}
    /\ tasks = <<>>

\* C20: a file at a final path of the downloads directory was written by a
\* wget that had exited with success, and no wget is writing it.
C20_OnlyFinishedFilesAtFinalPath ==
    \A n \in DOMAIN downloads :
        /\ downloads[n].complete
        /\ downloads[n].writers = {}

=============================================================================
